---- MODULE Spec2Model ----
(***************************************************************************)
(* The tool-calling agents of 02-ai-agents-lite-llm: class Agent of        *)
(* 02-agent.py (tools are dicts, with an approval gate) and class Agent of *)
(* 03-agent-pydantic.py (tools are pydantic Tool objects).  One run is     *)
(* split at its calls to the outside: the Completion Provider, the         *)
(* approval gate and the tool handler.                                     *)
(***************************************************************************)
EXTENDS Integers, Sequences, FiniteSets, TLC

\* ------------------------------------------------------------- bounds
\* the largest max_iterations an agent is constructed with
MaxIter == 3
\* the most tool invocation requests the provider puts in one assistant turn
MaxCalls == 2
\* run is called, and the provider requests tools, only while the
\* conversation stays within this many messages
MaxMessages == 5

VARIABLES
    script,   \* which file's Agent class the agents are instances of
    self,     \* self[a]: the attributes of agent object a
    frame,    \* frame[a]: where a's call of run stands, and its locals
    obs,      \* obs[a]: what a's caller and collaborators have seen of the
              \* last run: its prompt, its calls to the outside (events), how
              \* it ended (ret), whether it began on a fresh conversation
    stub      \* the deterministic provider, gate and handler of a test

vars == <<script, self, frame, obs, stub>>

Scripts == {"02-agent.py", "03-agent-pydantic.py"}
Agents == {"A", "B"}
Prompts == {"hello"}

\* --------------------------------------------------- tools (constructor input)
\* the tools list main() of 02-agent.py builds
tools_02 ==
    << [name |-> "bash_command", description |-> "Execute a bash command",
        function |-> "bash_command", requires_approval |-> TRUE,
        parameters |-> [type |-> "object", required |-> <<"command">>]],
       [name |-> "read_file", description |-> "Read the contents of a text file",
        function |-> "read_file", requires_approval |-> FALSE,
        parameters |-> [type |-> "object", required |-> <<"filepath">>]] >>

\* weather_tool of 03-agent-pydantic.py
weather_tool ==
    [name |-> "get_weather", description |-> "Get the current weather for a city.",
     function |-> "get_weather", parameters_model |-> "WeatherParams"]

calculator_tool ==
    [name |-> "calculator", description |-> "Perform arithmetic operations on two numbers.",
     function |-> "calculator", parameters_model |-> "CalculatorParams"]

\* the fields a parameters model requires (WeatherParams: location: str = Field(...))
RequiredFields(parameters_model) ==
    CASE parameters_model = "WeatherParams" -> {"location"}
      [] parameters_model = "CalculatorParams" -> {"operation", "a", "b"}
      [] OTHER -> {}

\* parameters_model.model_json_schema()
model_json_schema(parameters_model) ==
    [type |-> "object", title |-> parameters_model,
     required |-> RequiredFields(parameters_model)]

\* the parameters of a handler function, all without default
Signature(function) ==
    CASE function = "bash_command" -> {"command"}
      [] function = "read_file" -> {"filepath"}
      [] function = "get_weather" -> {"location"}
      [] function = "calculator" -> {"operation", "a", "b"}
      [] OTHER -> {}

\* ------------------------------------------------------- 03: class Tool
to_litellm_tool(tool) ==
    [type |-> "function",
     function |-> [name |-> tool.name, description |-> tool.description,
                   parameters |-> model_json_schema(tool.parameters_model)]]

\* Tool.execute calling the handler with the arguments as they came
execute_unvalidated(tool, arguments, h) ==
    IF h.raised
    THEN [result |-> "Error executing " \o tool.name \o ": " \o h.value,
          called |-> TRUE]
    ELSE [result |-> h.value, called |-> TRUE]

\* Tool.execute: h is what the handler does when it is called.  The result
\* carries, beside the value returned, whether the handler was called.
execute(tool, arguments, h) ==
    IF ~(RequiredFields(tool.parameters_model) \subseteq DOMAIN arguments)
    THEN [result |-> "Error executing " \o tool.name \o ": 1 validation error for "
                       \o tool.parameters_model,
          called |-> FALSE]
    ELSE IF h.raised
    THEN [result |-> "Error executing " \o tool.name \o ": " \o h.value,
          called |-> TRUE]
    ELSE [result |-> h.value, called |-> TRUE]

\* ------------------------------------------------------ class Agent
DefaultInstruction == "You are a helpful assistant."

\* `x or default` on an optional string
OrDefault(x, default) == IF x = "" THEN default ELSE x

SystemMessage(system_instruction) ==
    [role |-> "system", content |-> system_instruction]

\* 02-agent.py Agent.__init__
__init__(model, system_instruction, tools, max_iterations) ==
    [model |-> model,
     system_instruction |-> OrDefault(system_instruction, DefaultInstruction),
     max_iterations |-> max_iterations,
     tools |-> tools,
     messages |-> << SystemMessage(OrDefault(system_instruction, DefaultInstruction)) >>]

\* 03-agent-pydantic.py Agent.register_tool, on the attributes ag
register_tool(ag, tool) ==
    [ag EXCEPT
       !.tools = [n \in DOMAIN ag.tools \cup {tool.name} |->
                     IF n = tool.name THEN tool ELSE ag.tools[n]],
       !.tool_definitions = Append(ag.tool_definitions, to_litellm_tool(tool))]

RECURSIVE register_all(_, _)
\* `for tool in tools: self.register_tool(tool)`
register_all(ag, tools) ==
    IF tools = <<>> THEN ag
    ELSE register_all(register_tool(ag, Head(tools)), Tail(tools))

\* 03-agent-pydantic.py Agent.__init__
pydantic__init__(model, system_instruction, tools, max_iterations) ==
    LET bare == [model |-> model,
                 system_instruction |-> OrDefault(system_instruction, DefaultInstruction),
                 max_iterations |-> max_iterations,
                 tools |-> << >>,
                 tool_definitions |-> << >>,
                 messages |-> << >>]
        registered == register_all(bare, tools)
    IN  [registered EXCEPT !.messages = << SystemMessage(bare.system_instruction) >>]

\* _get_tool_definitions handing the provider each tool dict as it is
_get_tool_definitions_whole(ag) ==
    [i \in 1..Len(ag.tools) |-> [type |-> "function", function |-> ag.tools[i]]]

\* 02-agent.py Agent._get_tool_definitions
_get_tool_definitions(ag) ==
    [i \in 1..Len(ag.tools) |->
        [type |-> "function",
         function |-> [name |-> ag.tools[i].name,
                       description |-> ag.tools[i].description,
                       parameters |-> ag.tools[i].parameters]]]

\* 02-agent.py Agent._find_tool: the first tool of that name, or none
_find_tool(ag, tool_name) ==
    LET hits == {i \in 1..Len(ag.tools) : ag.tools[i].name = tool_name}
    IN  IF hits = {} THEN [found |-> FALSE]
        ELSE [found |-> TRUE,
              tool |-> ag.tools[CHOOSE i \in hits : \A j \in hits : i <= j]]

\* ------------------------------------------------- the outside world
\* the texts the model answers with when it requests no tool
Contents == {"The answer.", "Error: Maximum iterations reached",
             "Error: Maximum iterations reached without final answer"}

\* a provider call ends with an exception, or with response.choices[0].message
Failed == [ok |-> FALSE, message |-> [content |-> ""]]
Answered(messages) == {[ok |-> TRUE, message |-> m] : m \in messages}

\* the tool names the model asks for: each is registered in one script only
ToolNames == {"bash_command", "read_file", "get_weather"}

ArgCommand == "{\"command\": \"ls\"}"
ArgFilepath == "{\"filepath\": \"a.txt\"}"
ArgLocation == "{\"location\": \"Tokyo\"}"
ArgEmpty == "{}"
ArgQuery == "{\"query\": \"refund\"}"
ArgMalformed == "{\"command\": "

\* the argument strings the model sends with a request for tool_name: the
\* ones the tool's schema asks for, an empty object, a cut-off string
ArgumentsFor(tool_name) ==
    { CASE tool_name = "bash_command" -> ArgCommand
        [] tool_name = "read_file" -> ArgFilepath
        [] OTHER -> ArgLocation,
      ArgEmpty, ArgMalformed }

\* json.loads on those strings: the mapping, or JSONDecodeError
json_loads(s) ==
    CASE s = ArgCommand -> [ok |-> TRUE, value |-> [command |-> "ls"]]
      [] s = ArgFilepath -> [ok |-> TRUE, value |-> [filepath |-> "a.txt"]]
      [] s = ArgLocation -> [ok |-> TRUE, value |-> [location |-> "Tokyo"]]
      [] s = ArgQuery -> [ok |-> TRUE, value |-> [query |-> "refund"]]
      [] s = ArgEmpty -> [ok |-> TRUE, value |-> << >>]
      [] OTHER -> [ok |-> FALSE, value |-> << >>]

\* the ids of the requests of one turn, unique within the turn only
CallId(i) == IF i = 1 THEN "call_b" ELSE IF i = 2 THEN "call_a" ELSE "call_c"

Functions == UNION {{[name |-> n, arguments |-> s] : s \in ArgumentsFor(n)} : n \in ToolNames}

\* the tool_calls lists of a message that requests tools
CallLists ==
    UNION {{[i \in 1..k |-> [id |-> CallId(i), type |-> "function", function |-> f[i]]] :
              f \in [1..k -> Functions]} : k \in 1..MaxCalls}

\* response.choices[0].message: with tool invocation requests ...
ToolCallMessages ==
    {[content |-> "", tool_calls |-> [none |-> FALSE, list |-> calls]] : calls \in CallLists}

\* ... or without: tool_calls absent, None or empty
FinalMessages ==
    UNION {{[content |-> c],
            [content |-> c, tool_calls |-> [none |-> TRUE, list |-> << >>]],
            [content |-> c, tool_calls |-> [none |-> FALSE, list |-> << >>]]} : c \in Contents}

hasattr(message, attr) == attr \in DOMAIN message

\* truth value of message.tool_calls
Truthy(tool_calls) == ~tool_calls.none /\ tool_calls.list # << >>

\* message.model_dump()
model_dump(message) ==
    [role |-> "assistant", content |-> message.content,
     tool_calls |-> message.tool_calls.list]

\* what input() gives the approval gate: a line, or EOFError
GateInputs == {[eof |-> FALSE, line |-> l] : l \in {"y", "YES", "n"}}
                 \cup {[eof |-> TRUE, line |-> ""]}

\* str.lower on those lines
lower(s) == IF s = "YES" THEN "yes" ELSE s

\* what a tool handler does when called: returns a value or raises
HandlerOutcomes == {[raised |-> FALSE, value |-> "output"],
                    [raised |-> TRUE, value |-> "boom"]}

\* _execute_tool with the answer of the approval gate ignored
_execute_tool_unapproved(ag, tool_name, tool_args, g, h) ==
    LET found == _find_tool(ag, tool_name)
        tool == found.tool
        needs == IF "requires_approval" \in DOMAIN tool
                 THEN tool.requires_approval ELSE FALSE
    IN  IF ~found.found
        THEN [exc |-> "", result |-> "Error: Tool '" \o tool_name \o "' not found",
              asked |-> FALSE, called |-> FALSE]
        ELSE IF needs /\ g.eof
        THEN [exc |-> "EOFError", result |-> "", asked |-> TRUE, called |-> FALSE]
        ELSE IF DOMAIN tool_args # Signature(tool.function)
        THEN [exc |-> "",
              result |-> "Error: " \o tool.function \o "() got unexpected arguments",
              asked |-> needs, called |-> FALSE]
        ELSE IF h.raised
        THEN [exc |-> "", result |-> "Error: " \o h.value,
              asked |-> needs, called |-> TRUE]
        ELSE [exc |-> "", result |-> h.value, asked |-> needs, called |-> TRUE]

\* _execute_tool without its try/except around the handler call
_execute_tool_untried(ag, tool_name, tool_args, g, h) ==
    LET found == _find_tool(ag, tool_name)
        tool == found.tool
        needs == IF "requires_approval" \in DOMAIN tool
                 THEN tool.requires_approval ELSE FALSE
    IN  IF ~found.found
        THEN [exc |-> "", result |-> "Error: Tool '" \o tool_name \o "' not found",
              asked |-> FALSE, called |-> FALSE]
        ELSE IF needs /\ g.eof
        THEN [exc |-> "EOFError", result |-> "", asked |-> TRUE, called |-> FALSE]
        ELSE IF needs /\ lower(g.line) \notin {"y", "yes"}
        THEN [exc |-> "", result |-> "Tool execution cancelled by user",
              asked |-> TRUE, called |-> FALSE]
        ELSE IF DOMAIN tool_args # Signature(tool.function)
        THEN [exc |-> "TypeError", result |-> "", asked |-> needs, called |-> FALSE]
        ELSE IF h.raised
        THEN [exc |-> h.value, result |-> "", asked |-> needs, called |-> TRUE]
        ELSE [exc |-> "", result |-> h.value, asked |-> needs, called |-> TRUE]

\* 02-agent.py Agent._execute_tool.  g is what input() gives if asked, h what
\* the handler does if called.  exc is the exception that leaves the method
\* ("" for none); asked and called tell whether the gate and the handler
\* were used.
_execute_tool(ag, tool_name, tool_args, g, h) ==
    LET found == _find_tool(ag, tool_name)
        tool == found.tool
        needs == IF "requires_approval" \in DOMAIN tool
                 THEN tool.requires_approval ELSE FALSE
    IN  IF ~found.found
        THEN [exc |-> "", result |-> "Error: Tool '" \o tool_name \o "' not found",
              asked |-> FALSE, called |-> FALSE]
        ELSE IF needs /\ g.eof
        THEN [exc |-> "EOFError", result |-> "", asked |-> TRUE, called |-> FALSE]
        ELSE IF needs /\ lower(g.line) \notin {"y", "yes"}
        THEN [exc |-> "", result |-> "Tool execution cancelled by user",
              asked |-> TRUE, called |-> FALSE]
        ELSE IF DOMAIN tool_args # Signature(tool.function)
        THEN [exc |-> "",
              result |-> "Error: " \o tool.function \o "() got unexpected arguments",
              asked |-> needs, called |-> FALSE]
        ELSE IF h.raised
        THEN [exc |-> "", result |-> "Error: " \o h.value,
              asked |-> needs, called |-> TRUE]
        ELSE [exc |-> "", result |-> h.value, asked |-> needs, called |-> TRUE]

\* --------------------------------------------------------------- run
\* the text run returns when the loop ends without an answer
ExhaustionText(file) ==
    IF file = "02-agent.py" THEN "Error: Maximum iterations reached"
    ELSE "Error: Maximum iterations reached without final answer"

NoMessage == [content |-> ""]
IdleFrame == [pc |-> "idle", i |-> 0, tc |-> 0, message |-> NoMessage]

\* how a call of run ended, for its caller: kind is "none" (never called),
\* "running", "done" (the answer), "exhausted" or "raised"
Outcome(kind, value) == [kind |-> kind, value |-> value]

\* run starting over from the system message, as FAQAgent.chat does
run_from_system_message(a, prompt) ==
    /\ frame[a].pc = "idle"
    /\ self' = [self EXCEPT ![a].messages =
                   << @[1], [role |-> "user", content |-> prompt] >>]
    /\ IF self[a].max_iterations > 0
       THEN /\ frame' = [frame EXCEPT ![a] = [IdleFrame EXCEPT !.pc = "completion"]]
            /\ obs' = [obs EXCEPT ![a] = [@ EXCEPT !.prompt = prompt, !.events = << >>,
                                             !.fresh = "used", !.began = obs[a].fresh,
                                             !.ret = Outcome("running", "")]]
       ELSE /\ frame' = [frame EXCEPT ![a] = IdleFrame]
            /\ obs' = [obs EXCEPT ![a] = [@ EXCEPT !.prompt = prompt, !.events = << >>,
                                             !.fresh = "used", !.began = obs[a].fresh,
                                             !.ret = Outcome("exhausted", ExhaustionText(script))]]
    /\ UNCHANGED <<script, stub>>

\* run on a messages list that is one list shared by all the agents
run_shared_messages(a, prompt) ==
    /\ frame[a].pc = "idle"
    /\ self' = [b \in DOMAIN self |->
                   [self[b] EXCEPT !.messages =
                       Append(@, [role |-> "user", content |-> prompt])]]
    /\ IF self[a].max_iterations > 0
       THEN /\ frame' = [frame EXCEPT ![a] = [IdleFrame EXCEPT !.pc = "completion"]]
            /\ obs' = [obs EXCEPT ![a] = [@ EXCEPT !.prompt = prompt, !.events = << >>,
                                             !.fresh = "used", !.began = obs[a].fresh,
                                             !.ret = Outcome("running", "")]]
       ELSE /\ frame' = [frame EXCEPT ![a] = IdleFrame]
            /\ obs' = [obs EXCEPT ![a] = [@ EXCEPT !.prompt = prompt, !.events = << >>,
                                             !.fresh = "used", !.began = obs[a].fresh,
                                             !.ret = Outcome("exhausted", ExhaustionText(script))]]
    /\ UNCHANGED <<script, stub>>

\* run entering the loop body before it looks at max_iterations
run_loop_entered(a, prompt) ==
    /\ frame[a].pc = "idle"
    /\ self' = [self EXCEPT ![a].messages =
                   Append(@, [role |-> "user", content |-> prompt])]
    /\ frame' = [frame EXCEPT ![a] = [IdleFrame EXCEPT !.pc = "completion"]]
    /\ obs' = [obs EXCEPT ![a] = [@ EXCEPT !.prompt = prompt, !.events = << >>,
                                     !.fresh = "used", !.began = obs[a].fresh,
                                     !.ret = Outcome("running", "")]]
    /\ UNCHANGED <<script, stub>>

\* run, from its entry to the first provider call: the user message is
\* appended; a loop of no iteration returns at once
run(a, prompt) ==
    /\ frame[a].pc = "idle"
    /\ self' = [self EXCEPT ![a].messages =
                   Append(@, [role |-> "user", content |-> prompt])]
    /\ IF self[a].max_iterations > 0
       THEN /\ frame' = [frame EXCEPT ![a] = [IdleFrame EXCEPT !.pc = "completion"]]
            /\ obs' = [obs EXCEPT ![a] = [@ EXCEPT !.prompt = prompt, !.events = << >>,
                                             !.fresh = "used", !.began = obs[a].fresh,
                                             !.ret = Outcome("running", "")]]
       ELSE /\ frame' = [frame EXCEPT ![a] = IdleFrame]
            /\ obs' = [obs EXCEPT ![a] = [@ EXCEPT !.prompt = prompt, !.events = << >>,
                                             !.fresh = "used", !.began = obs[a].fresh,
                                             !.ret = Outcome("exhausted", ExhaustionText(script))]]
    /\ UNCHANGED <<script, stub>>

\* the test without its `not message.tool_calls`
NoToolCalls_attr_only(message) == ~hasattr(message, "tool_calls")

\* `not hasattr(message, "tool_calls") or not message.tool_calls`
NoToolCalls(message) ==
    ~hasattr(message, "tool_calls") \/ ~Truthy(message.tool_calls)

\* completion with a provider failure swallowed: the loop calls again
completion_retried(a, responses) ==
    /\ frame[a].pc = "completion"
    /\ \E response \in responses :
         LET message == response.message
         IN  /\ obs' = [obs EXCEPT
                          ![a].events = Append(@, [ev |-> "completion", ok |-> response.ok,
                                                   message |-> message]),
                          ![a].ret = IF ~response.ok THEN @
                                     ELSE IF NoToolCalls(message)
                                     THEN Outcome("done", message.content)
                                     ELSE @]
             /\ IF ~response.ok
                THEN UNCHANGED <<self, frame>>
                ELSE IF NoToolCalls(message)
                THEN /\ self' = [self EXCEPT ![a].messages =
                                   Append(@, [role |-> "assistant",
                                              content |-> message.content])]
                     /\ frame' = [frame EXCEPT ![a] = IdleFrame]
                ELSE /\ self' = [self EXCEPT ![a].messages =
                                   Append(@, model_dump(message))]
                     /\ frame' = [frame EXCEPT ![a].pc = "tools", ![a].tc = 1,
                                               ![a].message = message]
    /\ UNCHANGED <<script, stub>>

\* completion appending the answer a second time before it returns
completion_answer_twice(a, responses) ==
    /\ frame[a].pc = "completion"
    /\ \E response \in responses :
         LET message == response.message
         IN  /\ obs' = [obs EXCEPT
                          ![a].events = Append(@, [ev |-> "completion", ok |-> response.ok,
                                                   message |-> message]),
                          ![a].ret = IF ~response.ok THEN Outcome("raised", "ProviderError")
                                     ELSE IF NoToolCalls(message)
                                     THEN Outcome("done", message.content)
                                     ELSE @]
             /\ IF ~response.ok
                THEN /\ UNCHANGED self
                     /\ frame' = [frame EXCEPT ![a] = IdleFrame]
                ELSE IF NoToolCalls(message)
                THEN /\ self' = [self EXCEPT ![a].messages =
                                   Append(Append(@, [role |-> "assistant",
                                                     content |-> message.content]),
                                          [role |-> "assistant", content |-> message.content])]
                     /\ frame' = [frame EXCEPT ![a] = IdleFrame]
                ELSE /\ self' = [self EXCEPT ![a].messages =
                                   Append(@, model_dump(message))]
                     /\ frame' = [frame EXCEPT ![a].pc = "tools", ![a].tc = 1,
                                               ![a].message = message]
    /\ UNCHANGED <<script, stub>>

\* a provider call whose failure takes the messages of the run back out of
\* the conversation
completion_rolled_back(a, responses) ==
    /\ frame[a].pc = "completion"
    /\ \E response \in responses :
         LET message == response.message
         IN  /\ obs' = [obs EXCEPT
                          ![a].events = Append(@, [ev |-> "completion", ok |-> response.ok,
                                                   message |-> message]),
                          ![a].ret = IF ~response.ok THEN Outcome("raised", "ProviderError")
                                     ELSE IF NoToolCalls(message)
                                     THEN Outcome("done", message.content)
                                     ELSE @]
             /\ IF ~response.ok
                THEN /\ self' = [self EXCEPT ![a].messages =
                                   SubSeq(@, 1, Len(@) - Len(obs[a].events) - 1)]
                     /\ frame' = [frame EXCEPT ![a] = IdleFrame]
                ELSE IF NoToolCalls(message)
                THEN /\ self' = [self EXCEPT ![a].messages =
                                   Append(@, [role |-> "assistant",
                                              content |-> message.content])]
                     /\ frame' = [frame EXCEPT ![a] = IdleFrame]
                ELSE /\ self' = [self EXCEPT ![a].messages =
                                   Append(@, model_dump(message))]
                     /\ frame' = [frame EXCEPT ![a].pc = "tools", ![a].tc = 1,
                                               ![a].message = message]
    /\ UNCHANGED <<script, stub>>

\* run, one call of completion(...) and what follows up to the tool loop.
\* responses is what the provider may do on this call: the call fails and
\* the exception leaves run, or the message is an answer and run returns
\* it, or the message asks for tools
completion(a, responses) ==
    /\ frame[a].pc = "completion"
    /\ \E response \in responses :
         LET message == response.message
         IN  /\ obs' = [obs EXCEPT
                          ![a].events = Append(@, [ev |-> "completion", ok |-> response.ok,
                                                   message |-> message]),
                          ![a].ret = IF ~response.ok THEN Outcome("raised", "ProviderError")
                                     ELSE IF NoToolCalls(message)
                                     THEN Outcome("done", message.content)
                                     ELSE @]
             /\ IF ~response.ok
                THEN /\ UNCHANGED self
                     /\ frame' = [frame EXCEPT ![a] = IdleFrame]
                ELSE IF NoToolCalls(message)
                THEN /\ self' = [self EXCEPT ![a].messages =
                                   Append(@, [role |-> "assistant",
                                              content |-> message.content])]
                     /\ frame' = [frame EXCEPT ![a] = IdleFrame]
                ELSE /\ self' = [self EXCEPT ![a].messages =
                                   Append(@, model_dump(message))]
                     /\ frame' = [frame EXCEPT ![a].pc = "tools", ![a].tc = 1,
                                               ![a].message = message]
    /\ UNCHANGED <<script, stub>>

\* the body of `for tool_call in message.tool_calls` of 02-agent.py up to the
\* result: json.loads outside any try, then _execute_tool
body_02(ag, tool_call, g, h) ==
    LET parsed == json_loads(tool_call.function.arguments)
    IN  IF ~parsed.ok
        THEN [exc |-> "JSONDecodeError", result |-> "", asked |-> FALSE, called |-> FALSE]
        ELSE _execute_tool(ag, tool_call.function.name, parsed.value, g, h)

\* the body of 03-agent-pydantic.py with its json.loads outside the try
body_03_unguarded(ag, tool_call, h) ==
    LET parsed == json_loads(tool_call.function.arguments)
        tool_name == tool_call.function.name
    IN  IF ~parsed.ok
        THEN [exc |-> "JSONDecodeError", result |-> "", asked |-> FALSE, called |-> FALSE]
        ELSE IF tool_name \in DOMAIN ag.tools
        THEN [exc |-> "", asked |-> FALSE] @@ execute(ag.tools[tool_name], parsed.value, h)
        ELSE [exc |-> "", result |-> "Error: Tool '" \o tool_name \o "' not found",
              asked |-> FALSE, called |-> FALSE]

\* the same of 03-agent-pydantic.py: JSONDecodeError gives {}, the tool is
\* looked up in the mapping, the result goes through str()
body_03(ag, tool_call, h) ==
    LET parsed == json_loads(tool_call.function.arguments)
        tool_name == tool_call.function.name
        tool_args == IF parsed.ok THEN parsed.value ELSE << >>
    IN  IF tool_name \in DOMAIN ag.tools
        THEN [exc |-> "", asked |-> FALSE] @@ execute(ag.tools[tool_name], tool_args, h)
        ELSE [exc |-> "", result |-> "Error: Tool '" \o tool_name \o "' not found",
              asked |-> FALSE, called |-> FALSE]

\* the loop bound off by one: one pass more
LastIteration_one_more(i, max_iterations) == i >= max_iterations

\* `for _ in range(self.max_iterations)`: the pass numbered i (from 0) is
\* the last one
LastIteration(i, max_iterations) == i + 1 >= max_iterations

\* the tool-result message appended for a request
ToolMessage(tool_call, result) ==
    [role |-> "tool", tool_call_id |-> tool_call.id,
     name |-> tool_call.function.name, content |-> result]

\* the tool loop leaving the turn at the first request that fails
tool_call_until_failure(a, gates, handlers) ==
    /\ frame[a].pc = "tools"
    /\ \E g \in gates, h \in handlers :
         LET ag == self[a]
             calls == frame[a].message.tool_calls.list
             request == calls[frame[a].tc]
             r == IF script = "02-agent.py" THEN body_02(ag, request, g, h)
                  ELSE body_03(ag, request, h)
             event == [ev |-> "tool", id |-> request.id, name |-> request.function.name,
                       asked |-> r.asked, gate |-> IF r.asked THEN g ELSE [eof |-> FALSE, line |-> ""],
                       called |-> r.called, raised |-> r.called /\ h.raised,
                       value |-> IF r.called THEN h.value ELSE "",
                       exc |-> r.exc,
                       at |-> IF r.exc = "" THEN Len(ag.messages) + 1 ELSE 0]
             last_call == frame[a].tc = Len(calls) \/ ~r.called \/ h.raised
             last_iteration == LastIteration(frame[a].i, ag.max_iterations)
         IN  IF r.exc # ""
             THEN /\ UNCHANGED self
                  /\ frame' = [frame EXCEPT ![a] = IdleFrame]
                  /\ obs' = [obs EXCEPT ![a].events = Append(@, event),
                                        ![a].ret = Outcome("raised", r.exc)]
             ELSE /\ self' = [self EXCEPT ![a].messages =
                                 Append(@, ToolMessage(request, r.result))]
                  /\ frame' = [frame EXCEPT ![a] =
                                 IF ~last_call THEN [@ EXCEPT !.tc = @ + 1]
                                 ELSE IF ~last_iteration
                                 THEN [IdleFrame EXCEPT !.pc = "completion", !.i = frame[a].i + 1]
                                 ELSE IdleFrame]
                  /\ obs' = [obs EXCEPT ![a].events = Append(@, event),
                                        ![a].ret = IF last_call /\ last_iteration
                                                   THEN Outcome("exhausted", ExhaustionText(script))
                                                   ELSE @]
    /\ UNCHANGED <<script, stub>>

\* run, one pass of the tool loop: the request is resolved and its result
\* appended, or an exception leaves run.  After the last request of the
\* turn the iteration ends: the next provider call, or the return of the
\* exhaustion text when it was the last iteration.  gates and handlers are
\* what the approval input and the handler may do on this pass.
tool_call(a, gates, handlers) ==
    /\ frame[a].pc = "tools"
    /\ \E g \in gates, h \in handlers :
         LET ag == self[a]
             calls == frame[a].message.tool_calls.list
             request == calls[frame[a].tc]
             r == IF script = "02-agent.py" THEN body_02(ag, request, g, h)
                  ELSE body_03(ag, request, h)
             event == [ev |-> "tool", id |-> request.id, name |-> request.function.name,
                       asked |-> r.asked, gate |-> IF r.asked THEN g ELSE [eof |-> FALSE, line |-> ""],
                       called |-> r.called, raised |-> r.called /\ h.raised,
                       value |-> IF r.called THEN h.value ELSE "",
                       exc |-> r.exc,
                       at |-> IF r.exc = "" THEN Len(ag.messages) + 1 ELSE 0]
             last_call == frame[a].tc = Len(calls)
             last_iteration == LastIteration(frame[a].i, ag.max_iterations)
         IN  IF r.exc # ""
             THEN /\ UNCHANGED self
                  /\ frame' = [frame EXCEPT ![a] = IdleFrame]
                  /\ obs' = [obs EXCEPT ![a].events = Append(@, event),
                                        ![a].ret = Outcome("raised", r.exc)]
             ELSE /\ self' = [self EXCEPT ![a].messages =
                                 Append(@, ToolMessage(request, r.result))]
                  /\ frame' = [frame EXCEPT ![a] =
                                 IF ~last_call THEN [@ EXCEPT !.tc = @ + 1]
                                 ELSE IF ~last_iteration
                                 THEN [IdleFrame EXCEPT !.pc = "completion", !.i = frame[a].i + 1]
                                 ELSE IdleFrame]
                  /\ obs' = [obs EXCEPT ![a].events = Append(@, event),
                                        ![a].ret = IF last_call /\ last_iteration
                                                   THEN Outcome("exhausted", ExhaustionText(script))
                                                   ELSE @]
    /\ UNCHANGED <<script, stub>>

\* a reset that keeps the last message beside the system message
ResetMessages_keep_last(ag) ==
    << SystemMessage(ag.system_instruction) >> \o
    (IF Len(ag.messages) > 1 THEN << ag.messages[Len(ag.messages)] >> ELSE << >>)

\* a reset to the default instruction instead of the agent's own
ResetMessages_default(ag) == << SystemMessage(DefaultInstruction) >>

\* what reset assigns to self.messages
ResetMessages(ag) == << SystemMessage(ag.system_instruction) >>

\* Agent.reset, called between runs.  The events of the last run tell of
\* messages that are gone, and go with them.
reset(a) ==
    /\ frame[a].pc = "idle"
    /\ self' = [self EXCEPT ![a].messages = ResetMessages(self[a])]
    /\ obs' = [obs EXCEPT ![a].events = << >>,
                          ![a].fresh = IF @ = "used" THEN "reset after runs"
                                       ELSE IF @ = "new" THEN "reset" ELSE @]
    /\ UNCHANGED <<script, frame, stub>>

\* ------------------------------------------------------ specification
\* a test's deterministic stand-ins: the provider's answer is a function of
\* the history it receives (of its length modulo StubPeriod), the gate
\* always gives the same line, the handler always does the same
StubPeriod == 2

StubResponses ==
    LET call(i, n, s) == [id |-> CallId(i), type |-> "function",
                          function |-> [name |-> n, arguments |-> s]]
        asks(calls) == [ok |-> TRUE,
                        message |-> [content |-> "",
                                     tool_calls |-> [none |-> FALSE, list |-> calls]]]
    IN  { Failed,
          [ok |-> TRUE, message |-> [content |-> "The answer."]],
          asks(<< call(1, "bash_command", ArgCommand) >>),
          asks(<< call(1, "read_file", ArgFilepath), call(2, "get_weather", ArgEmpty) >>),
          asks(<< call(1, "get_weather", ArgMalformed) >>) }

Stubs == [answers : [0..(StubPeriod - 1) -> StubResponses],
          gate : GateInputs, handler : HandlerOutcomes]

NoStub == [answers |-> [d \in 0..(StubPeriod - 1) |-> Failed],
           gate |-> [eof |-> TRUE, line |-> ""],
           handler |-> [raised |-> FALSE, value |-> "output"]]

\* the stub provider's answer to a history
StubCompletion(messages) == stub.answers[Len(messages) % StubPeriod]

\* Agent(model, system_instruction, tools, max_iterations) of either file
Agent(file, max_iterations) ==
    IF file = "02-agent.py"
    THEN __init__("gpt-5", "SYSTEM_PROMPT", tools_02, max_iterations)
    ELSE pydantic__init__("gpt-4o-mini", "SYSTEM_PROMPT", << weather_tool >>, max_iterations)

\* the state after construction of the agents, with max_iterations none,
\* one, or the largest
Constructed ==
    /\ script \in Scripts
    /\ \E n \in {0, 1, MaxIter} : self = [a \in Agents |-> Agent(script, n)]
    /\ frame = [a \in Agents |-> IdleFrame]
    /\ obs = [a \in Agents |-> [prompt |-> "", events |-> << >>, fresh |-> "new",
                                began |-> "",
                                ret |-> Outcome("none", "")]]

Init == Constructed /\ stub = NoStub

\* the conversation has room for another run
Room(a) == Len(self[a].messages) < MaxMessages

\* what any provider may do: fail, answer, or request tools while the
\* conversation has room for the turn
ProviderResponses(a) ==
    {Failed} \cup Answered(FinalMessages) \cup
    Answered({m \in ToolCallMessages :
                 Len(self[a].messages) + 1 + Len(m.tool_calls.list) <= MaxMessages})

\* one agent, its caller running and resetting it in any order
Next ==
    \/ \E p \in Prompts : Room("A") /\ run("A", p)
    \/ completion("A", ProviderResponses("A"))
    \/ tool_call("A", GateInputs, HandlerOutcomes)
    \/ reset("A")

Spec == Init /\ [][Next]_vars

\* agents built with a max_iterations of one, of zero or below zero, run
\* and reset by their caller in any order against any provider
ShortLoops == {-1, 0, 1}

InitShortLoops ==
    /\ script \in Scripts
    /\ \E n \in ShortLoops : self = [a \in Agents |-> Agent(script, n)]
    /\ frame = [a \in Agents |-> IdleFrame]
    /\ obs = [a \in Agents |-> [prompt |-> "", events |-> << >>, fresh |-> "new",
                                began |-> "",
                                ret |-> Outcome("none", "")]]
    /\ stub = NoStub

SpecShortLoops == InitShortLoops /\ [][Next]_vars

\* a provider that on every call requests exactly one tool, of any name and
\* with any arguments; run is called on a conversation that holds the
\* system message only
OneToolResponses ==
    Answered({m \in ToolCallMessages : Len(m.tool_calls.list) = 1})

NextOneTool ==
    \/ \E p \in Prompts : Len(self["A"].messages) = 1 /\ run("A", p)
    \/ completion("A", OneToolResponses)
    \/ tool_call("A", GateInputs, HandlerOutcomes)
    \/ reset("A")

SpecOneTool == Init /\ [][NextOneTool]_vars

\* two agents built alike, their single-threaded caller, and the
\* deterministic stand-ins of a test.  A is run and reset in any order; B is
\* the freshly constructed agent, run once.
InitDet == Constructed /\ stub \in Stubs

Idle(a) == frame[a].pc = "idle"

NextDet ==
    \/ \E p \in Prompts : Idle("B") /\ Room("A") /\ run("A", p)
    \/ completion("A", {StubCompletion(self["A"].messages)})
    \/ tool_call("A", {stub.gate}, {stub.handler})
    \/ Idle("B") /\ reset("A")
    \/ \E p \in Prompts : Idle("A") /\ obs["B"].fresh = "new" /\ run("B", p)
    \/ completion("B", {StubCompletion(self["B"].messages)})
    \/ tool_call("B", {stub.gate}, {stub.handler})

SpecDet == InitDet /\ [][NextDet]_vars

\* two agents built from the same tools list and system instruction, run
\* and reset in any interleaving, a call on one while a run of the other
\* is in progress included.  The provider fails, answers, or requests one
\* approval-free tool while the conversation has room; each agent's
\* messages attribute is the list its own __init__ made.
PairResponses(a) ==
    {Failed} \cup Answered({[content |-> "The answer."]}) \cup
    (IF Len(self[a].messages) + 2 > MaxMessages THEN {}
     ELSE Answered({[content |-> "",
                     tool_calls |-> [none |-> FALSE,
                                     list |-> << [id |-> CallId(1), type |-> "function",
                                                  function |-> f] >>]] :
                       f \in {[name |-> "read_file", arguments |-> ArgFilepath],
                              [name |-> "get_weather", arguments |-> ArgLocation]}}))

StepOf(a) ==
    \/ \E p \in Prompts : Room(a) /\ run(a, p)
    \/ completion(a, PairResponses(a))
    \/ tool_call(a, {[eof |-> FALSE, line |-> "y"]}, HandlerOutcomes)
    \/ reset(a)

NextPair == \E a \in Agents : StepOf(a)

SpecPair == Init /\ [][NextPair]_vars

\* the longest tool_definitions list register_tool is followed to
MaxRegistered == 3

\* the Tools a caller registers: the module's weather_tool and
\* calculator_tool, and a Tool of its own that is named like weather_tool
RegisterTools ==
    {weather_tool, calculator_tool, [calculator_tool EXCEPT !.name = "get_weather"]}

\* a call of agent.register_tool(tool) between runs
register(a, tool) ==
    /\ frame[a].pc = "idle"
    /\ Len(self[a].tool_definitions) < MaxRegistered
    /\ self' = [self EXCEPT ![a] = register_tool(self[a], tool)]
    /\ UNCHANGED <<script, frame, obs, stub>>

\* 03-agent-pydantic.py agents built with no tool or with weather_tool,
\* their caller registering tools, running and resetting in any order
InitRegistry ==
    /\ script = "03-agent-pydantic.py"
    /\ \E tools \in {<< >>, << weather_tool >>} :
          self = [a \in Agents |->
                    pydantic__init__("gpt-4o-mini", "SYSTEM_PROMPT", tools, 1)]
    /\ frame = [a \in Agents |-> IdleFrame]
    /\ obs = [a \in Agents |-> [prompt |-> "", events |-> << >>, fresh |-> "new",
                                began |-> "",
                                ret |-> Outcome("none", "")]]
    /\ stub = NoStub

NextRegistry ==
    \/ \E tool \in RegisterTools : register("A", tool)
    \/ StepOf("A")

SpecRegistry == InitRegistry /\ [][NextRegistry]_vars

\* every provider call, tool handler and approval decision returns: input()
\* gives a line, and run is not left waiting at a call to the outside
GateLines == {g \in GateInputs : ~g.eof}

NextReturning ==
    \/ \E p \in Prompts : Room("A") /\ run("A", p)
    \/ completion("A", ProviderResponses("A"))
    \/ tool_call("A", GateLines, HandlerOutcomes)
    \/ reset("A")

SpecReturning ==
    /\ Init /\ [][NextReturning]_vars
    /\ WF_vars(completion("A", ProviderResponses("A")))
    /\ WF_vars(tool_call("A", GateLines, HandlerOutcomes))

\* ------------------------------------- 02-faq-agent-langgraph: FAQAgent
\* FAQAgent.__init__: the one tool schema and the system message
FAQAgent ==
    [database |-> "FAQDatabase",
     tools |-> << [type |-> "function",
                   function |-> [name |-> "search_faqs",
                                 description |-> "Search the FAQ database",
                                 parameters |-> [type |-> "object",
                                                 required |-> <<"query">>]]] >>,
     system_message |-> [role |-> "system", content |-> "faq_agent.md"]]

\* `max_iterations = 5` of chat
ChatMaxIterations == 5

\* no call of chat in progress; messages is a local of chat
ChatIdle == [pc |-> "idle", i |-> 0, tc |-> 0, message |-> NoMessage, messages |-> << >>]

\* chat keeping the user message of the call before
chat_remembering(a, message) ==
    /\ frame[a].pc = "idle"
    /\ frame' = [frame EXCEPT ![a] =
                   [ChatIdle EXCEPT !.pc = "completion",
                                    !.messages = << self[a].system_message,
                                                    [role |-> "user", content |-> obs[a].prompt],
                                                    [role |-> "user", content |-> message] >>]]
    /\ obs' = [obs EXCEPT ![a] = [@ EXCEPT !.prompt = message, !.events = << >>,
                                     !.fresh = "used", !.began = obs[a].fresh,
                                     !.ret = Outcome("running", "")]]
    /\ UNCHANGED <<script, self, stub>>

\* chat, from its entry to the first provider call
chat(a, message) ==
    /\ frame[a].pc = "idle"
    /\ frame' = [frame EXCEPT ![a] =
                   [ChatIdle EXCEPT !.pc = "completion",
                                    !.messages = << self[a].system_message,
                                                    [role |-> "user", content |-> message] >>]]
    /\ obs' = [obs EXCEPT ![a] = [@ EXCEPT !.prompt = message, !.events = << >>,
                                     !.fresh = "used", !.began = obs[a].fresh,
                                     !.ret = Outcome("running", "")]]
    /\ UNCHANGED <<script, self, stub>>

\* the assistant message chat appends for the provider's message
assistant_message(message) ==
    IF Truthy(message.tool_calls)
    THEN [role |-> "assistant", content |-> message.content,
          tool_calls |-> message.tool_calls.list]
    ELSE [role |-> "assistant", content |-> message.content]

\* chat, one call of client.chat.completions.create and what follows up to
\* the tool loop
chat_completion(a, responses) ==
    /\ frame[a].pc = "completion"
    /\ \E response \in responses :
         LET message == response.message
         IN  /\ obs' = [obs EXCEPT
                          ![a].events = Append(@, [ev |-> "completion", ok |-> response.ok,
                                                   message |-> message]),
                          ![a].ret = IF ~response.ok THEN Outcome("raised", "ProviderError")
                                     ELSE IF ~Truthy(message.tool_calls)
                                     THEN Outcome("done", message.content)
                                     ELSE @]
             /\ frame' = [frame EXCEPT ![a] =
                            IF ~response.ok THEN ChatIdle
                            ELSE IF ~Truthy(message.tool_calls) THEN ChatIdle
                            ELSE [@ EXCEPT !.pc = "tools", !.tc = 1, !.message = message,
                                           !.messages = Append(@, assistant_message(message))]]
    /\ UNCHANGED <<script, self, stub>>

\* the body of `for tool_call in message.tool_calls` of chat: only a request
\* named search_faqs is looked at; json.loads, args["query"] and search_faqs
\* are inside no try
chat_body(request, h) ==
    LET parsed == json_loads(request.function.arguments)
    IN  IF request.function.name # "search_faqs"
        THEN [exc |-> "", appended |-> FALSE, result |-> "", called |-> FALSE]
        ELSE IF ~parsed.ok
        THEN [exc |-> "JSONDecodeError", appended |-> FALSE, result |-> "", called |-> FALSE]
        ELSE IF "query" \notin DOMAIN parsed.value
        THEN [exc |-> "KeyError", appended |-> FALSE, result |-> "", called |-> FALSE]
        ELSE IF h.raised
        THEN [exc |-> h.value, appended |-> FALSE, result |-> "", called |-> TRUE]
        ELSE [exc |-> "", appended |-> TRUE, result |-> h.value, called |-> TRUE]

\* chat, one pass of the tool loop, and after the last request of the turn
\* the next provider call or the return of "Maximum iterations reached."
chat_tool_call(a, handlers) ==
    /\ frame[a].pc = "tools"
    /\ \E h \in handlers :
         LET calls == frame[a].message.tool_calls.list
             request == calls[frame[a].tc]
             r == chat_body(request, h)
             event == [ev |-> "tool", id |-> request.id, name |-> request.function.name,
                       called |-> r.called, exc |-> r.exc,
                       at |-> IF r.appended THEN Len(frame[a].messages) + 1 ELSE 0]
             messages == IF r.appended
                         THEN Append(frame[a].messages,
                                     [role |-> "tool", tool_call_id |-> request.id,
                                      content |-> r.result])
                         ELSE frame[a].messages
             last_call == frame[a].tc = Len(calls)
             last_iteration == LastIteration(frame[a].i, ChatMaxIterations)
         IN  IF r.exc # ""
             THEN /\ frame' = [frame EXCEPT ![a] = ChatIdle]
                  /\ obs' = [obs EXCEPT ![a].events = Append(@, event),
                                        ![a].ret = Outcome("raised", r.exc)]
             ELSE /\ frame' = [frame EXCEPT ![a] =
                                 IF ~last_call
                                 THEN [@ EXCEPT !.tc = @ + 1, !.messages = messages]
                                 ELSE IF ~last_iteration
                                 THEN [@ EXCEPT !.pc = "completion", !.i = @ + 1, !.tc = 0,
                                                !.message = NoMessage, !.messages = messages]
                                 ELSE ChatIdle]
                  /\ obs' = [obs EXCEPT ![a].events = Append(@, event),
                                        ![a].ret = IF last_call /\ last_iteration
                                                   THEN Outcome("exhausted", "Maximum iterations reached.")
                                                   ELSE @]
    /\ UNCHANGED <<script, self, stub>>

\* what the provider may do on a call of chat: fail, answer, or request
\* search_faqs and tools of other names
ChatResponses ==
    LET call(i, n, s) == [id |-> CallId(i), type |-> "function",
                          function |-> [name |-> n, arguments |-> s]]
        asks(calls) == [content |-> "", tool_calls |-> [none |-> FALSE, list |-> calls]]
    IN  {Failed} \cup
        Answered({[content |-> "The answer.", tool_calls |-> [none |-> TRUE, list |-> << >>]],
                  [content |-> "The answer.", tool_calls |-> [none |-> FALSE, list |-> << >>]],
                  asks(<< call(1, "search_faqs", ArgQuery) >>),
                  asks(<< call(1, "search_faqs", ArgQuery), call(2, "search_faqs", ArgQuery) >>),
                  asks(<< call(1, "get_weather", ArgLocation) >>),
                  asks(<< call(1, "search_faqs", ArgQuery), call(2, "get_weather", ArgLocation) >>),
                  asks(<< call(1, "search_faqs", ArgEmpty) >>),
                  asks(<< call(1, "search_faqs", ArgMalformed) >>)})

InitChat ==
    /\ script = "agent.py"
    /\ self = [a \in Agents |-> FAQAgent]
    /\ frame = [a \in Agents |-> ChatIdle]
    /\ obs = [a \in Agents |-> [prompt |-> "", events |-> << >>, fresh |-> "new",
                                began |-> "", ret |-> Outcome("none", "")]]
    /\ stub = NoStub

\* the messages chat is called with
ChatPrompts == {"hello", "refunds?"}

NextChat ==
    \/ \E p \in ChatPrompts : chat("A", p)
    \/ chat_completion("A", ChatResponses)
    \/ chat_tool_call("A", HandlerOutcomes)

SpecChat == InitChat /\ [][NextChat]_vars

\* ---------------------------------- 02-faq-agent-langgraph: FAQDatabase
\* the most chunks the collection is followed to, and the most H2 sections
\* of one markdown file
MaxStored == 4
MaxSections == 2

\* FAQDatabase.__init__: a collection of the in-memory client, empty; the
\* collection keeps its entries in the order they were added
FAQDatabase == [collection |-> << >>]

\* collection.count()
count(collection) == Len(collection)

\* what follows a "## " in a markdown file: a title line and a body, either
\* of which may be empty
Sections ==
    {[title |-> "Returns", body |-> "Within 30 days."],
     [title |-> "Shipping", body |-> "Two days."],
     [title |-> "Contact", body |-> ""]}

\* the markdown files read, each the sequence of its sections
Files == UNION {[1..n -> Sections] : n \in 0..MaxSections}

\* the *.md files a directory holds, in the order glob gives them: none,
\* one or two
Directories ==
    {<< >>} \cup {<< f >> : f \in Files} \cup {<< f, g >> : f, g \in Files}

RECURSIVE _parse_markdown(_)
\* a chunk for every section with a title and a body, in the file's order
_parse_markdown(content) ==
    IF content = << >> THEN << >>
    ELSE LET section == Head(content)
             title == section.title
             body == section.body
         IN  (IF title # "" /\ body # ""
              THEN << [title |-> title,
                       content |-> "## " \o title \o "\n\n" \o body] >>
              ELSE << >>) \o _parse_markdown(Tail(content))

\* _add_chunks numbering every batch from chunk_0
_add_chunks_from_zero(db, chunks, added) ==
    IF chunks = << >> THEN db
    ELSE LET documents == [idx \in 1..Len(chunks) |-> chunks[idx].content]
             metadatas == [idx \in 1..Len(chunks) |-> [title |-> chunks[idx].title]]
             ids == [idx \in 1..Len(chunks) |-> "chunk_" \o ToString(idx - 1)]
         IN  IF ~added THEN db
             ELSE [db EXCEPT !.collection =
                     @ \o [idx \in 1..Len(chunks) |->
                              [id |-> ids[idx], document |-> documents[idx],
                               metadata |-> metadatas[idx]]]]

\* _add_chunks: nothing for no chunk; else the ids count on from
\* collection.count() and collection.add stores the batch, or fails (the
\* embedding call) and stores nothing
_add_chunks(db, chunks, added) ==
    IF chunks = << >> THEN db
    ELSE LET offset == count(db.collection)
             documents == [idx \in 1..Len(chunks) |-> chunks[idx].content]
             metadatas == [idx \in 1..Len(chunks) |-> [title |-> chunks[idx].title]]
             ids == [idx \in 1..Len(chunks) |-> "chunk_" \o ToString(offset + idx - 1)]
         IN  IF ~added THEN db
             ELSE [db EXCEPT !.collection =
                     @ \o [idx \in 1..Len(chunks) |->
                              [id |-> ids[idx], document |-> documents[idx],
                               metadata |-> metadatas[idx]]]]

RECURSIVE all_chunks(_)
\* `for md_file in doc_path.glob("*.md"): all_chunks.extend(...)`
all_chunks(directory) ==
    IF directory = << >> THEN << >>
    ELSE _parse_markdown(Head(directory)) \o all_chunks(Tail(directory))

\* one load of the chunks, recorded with the count before it, the number of
\* chunks and whether collection.add raised
load(a, call, chunks, added) ==
    /\ count(self[a].collection) + Len(chunks) <= MaxStored
    /\ self' = [self EXCEPT ![a] = _add_chunks(self[a], chunks, added)]
    /\ obs' = [obs EXCEPT ![a] = [call |-> call, before |-> count(self[a].collection),
                                  chunks |-> Len(chunks),
                                  raised |-> chunks # << >> /\ ~added]]
    /\ UNCHANGED <<script, frame, stub>>

load_document(a, file_path) ==
    \E added \in BOOLEAN : load(a, "load_document", _parse_markdown(file_path), added)

load_from_directory(a, documents_dir) ==
    \E added \in BOOLEAN : load(a, "load_from_directory", all_chunks(documents_dir), added)

InitDatabase ==
    /\ script = "database.py"
    /\ self = [a \in Agents |-> FAQDatabase]
    /\ frame = [a \in Agents |-> IdleFrame]
    /\ obs = [a \in Agents |-> [call |-> "none", before |-> 0, chunks |-> 0,
                                raised |-> FALSE]]
    /\ stub = NoStub

NextDatabase ==
    \/ \E file_path \in Files : load_document("A", file_path)
    \/ \E documents_dir \in Directories : load_from_directory("A", documents_dir)

SpecDatabase == InitDatabase /\ [][NextDatabase]_vars

\* ------------------------------------------------------------ claims
\* what the claims speak of, read off the conversation and the events
Conversation(a) == self[a].messages

IsToolTurn(m) == m.role = "assistant" /\ "tool_calls" \in DOMAIN m /\ m.tool_calls # << >>

\* the turn at p is followed directly by one tool-result per request, with
\* the requests' ids in the requests' order, and by no further tool-result
AnsweredInOrder(c, p) ==
    LET k == Len(c[p].tool_calls)
    IN  /\ p + k <= Len(c)
        /\ \A i \in 1..k : /\ c[p + i].role = "tool"
                           /\ c[p + i].tool_call_id = c[p].tool_calls[i].id
        /\ p + k + 1 <= Len(c) => c[p + k + 1].role # "tool"

\* the turn whose tool loop is running, if one is
InProgress(a, p) ==
    /\ frame[a].pc = "tools"
    /\ \A q \in (p + 1)..Len(Conversation(a)) : ~IsToolTurn(Conversation(a)[q])

\* C1 (as stated): every assistant turn with k tool invocation requests,
\* once run has left its tool loop, is directly followed by exactly k
\* tool-result messages whose tool_call_ids are the requests' ids in order.
C1_ResultsMatchRequests ==
    \A p \in 1..Len(Conversation("A")) :
        (IsToolTurn(Conversation("A")[p]) /\ ~InProgress("A", p))
            => AnsweredInOrder(Conversation("A"), p)

\* the events of the run that are passes of the tool loop
ToolEvents(a) == {n \in 1..Len(obs[a].events) : obs[a].events[n].ev = "tool"}

\* C2 (as stated): run raises only when the provider call fails; every
\* request it resolves, whatever went wrong with it, gets a tool-result
\* text in the conversation.
C2_OnlyProviderErrorRaises ==
    /\ obs["A"].ret.kind = "raised" => obs["A"].ret.value = "ProviderError"
    /\ \A n \in ToolEvents("A") :
          LET e == obs["A"].events[n]
          IN  /\ e.exc = ""
              /\ e.at \in 1..Len(Conversation("A"))
              /\ Conversation("A")[e.at].role = "tool"

\* the nearest assistant message before position q (0 if none)
NearestAssistant(c, q) ==
    LET before == {p \in 1..(q - 1) : c[p].role = "assistant"}
    IN  IF before = {} THEN 0 ELSE CHOOSE p \in before : \A r \in before : r <= p

\* every tool-result answers a request of the nearest assistant message
\* before it, and every request of every assistant message is answered
WellFormed(c) ==
    /\ \A q \in 1..Len(c) :
          c[q].role = "tool" =>
            LET p == NearestAssistant(c, q)
            IN  /\ p > 0
                /\ IsToolTurn(c[p])
                /\ \E i \in 1..Len(c[p].tool_calls) : c[p].tool_calls[i].id = c[q].tool_call_id
    /\ \A p \in 1..Len(c) : IsToolTurn(c[p]) => AnsweredInOrder(c, p)

\* C3 (as stated): whenever the provider is about to be called, over any
\* sequence of runs and resets, the history sent to it is well-formed.
C3_HistoryWellFormedAtProviderCall ==
    frame["A"].pc = "completion" => WellFormed(Conversation("A"))

\* C10 (as stated): the value returned on exhaustion is none of the values
\* returned as an answer.
C10_ExhaustionValueDistinct ==
    obs["A"].ret.kind = "done" => obs["A"].ret.value # ExhaustionText(script)

\* the tool of that name is registered and flagged requires_approval
RequiresApproval(a, tool_name) ==
    /\ script = "02-agent.py"
    /\ \E i \in 1..Len(self[a].tools) :
          /\ self[a].tools[i].name = tool_name
          /\ self[a].tools[i].requires_approval

\* the gate was asked and said yes / was asked and said something else
Approved(e) == e.asked /\ ~e.gate.eof /\ lower(e.gate.line) \in {"y", "yes"}
Withheld(e) == e.asked /\ ~e.gate.eof /\ lower(e.gate.line) \notin {"y", "yes"}

\* after event n, the last so far, the loop has gone on: to the next
\* request of the turn, to the next provider call, or through the end of
\* the last iteration to the return of the exhaustion text
WentOn(a, n) ==
    n = Len(obs[a].events) =>
        \/ frame[a].pc \in {"tools", "completion"}
        \/ frame[a].pc = "idle" /\ obs[a].ret = Outcome("exhausted", ExhaustionText(script))

\* the tool-result message of event e is in the conversation, with this text
ResultIs(a, e, text) ==
    /\ e.exc = ""
    /\ e.at \in 1..Len(Conversation(a))
    /\ Conversation(a)[e.at] =
          [role |-> "tool", tool_call_id |-> e.id, name |-> e.name, content |-> text]

\* C4: in 02-agent.py, the handler of a requires_approval tool is called
\* only for a request the gate approved; when the gate withholds approval
\* the handler is not called, the tool-result is the cancellation text, and
\* the loop goes on.
C4_HandlerOnlyWhenApproved ==
    script = "02-agent.py" =>
        \A n \in ToolEvents("A") :
            LET e == obs["A"].events[n]
            IN  /\ (RequiresApproval("A", e.name) /\ e.called) => Approved(e)
                /\ Withheld(e) =>
                      /\ ~e.called
                      /\ ResultIs("A", e, "Tool execution cancelled by user")
                      /\ WentOn("A", n)

\* C4 witness: approval was withheld for one request of a turn and granted
\* for another, whose handler then ran
C4_Witness ==
    /\ script = "02-agent.py"
    /\ \E n, m \in ToolEvents("A") :
          /\ Withheld(obs["A"].events[n])
          /\ n < m
          /\ Approved(obs["A"].events[m]) /\ obs["A"].events[m].called

\* the error text each file makes of an exception of a tool's handler
HandlerErrorText(file, tool_name, what) ==
    IF file = "02-agent.py" THEN "Error: " \o what
    ELSE "Error executing " \o tool_name \o ": " \o what

\* C5: when a registered tool's handler raises, the failure is caught, its
\* error text is the tool-result of that request, the loop continues, and
\* the handler's exception never leaves run.
C5_HandlerFailureCaught ==
    /\ \A n \in ToolEvents("A") :
          LET e == obs["A"].events[n]
          IN  e.raised =>
                /\ ResultIs("A", e, HandlerErrorText(script, e.name, e.value))
                /\ WentOn("A", n)
    /\ obs["A"].ret.kind = "raised" =>
          obs["A"].ret.value \notin {h.value : h \in HandlerOutcomes}

\* C5 witness: a handler raised for the first request of a turn and the
\* second request of the turn was resolved after it
C5_Witness ==
    \E n, m \in ToolEvents("A") :
        /\ obs["A"].events[n].raised
        /\ m = n + 1
        /\ obs["A"].events[m].exc = ""

\* the events of the run that are provider calls
CompletionEvents(a) == {n \in 1..Len(obs[a].events) : obs[a].events[n].ev = "completion"}

\* the message requests no tool: tool_calls is absent, null or empty
AbsentNullOrEmpty(m) ==
    \/ "tool_calls" \notin DOMAIN m
    \/ m.tool_calls.none
    \/ m.tool_calls.list = << >>

\* the name is that of no registered tool
Unregistered(a, tool_name) ==
    IF script = "02-agent.py"
    THEN \A i \in 1..Len(self[a].tools) : self[a].tools[i].name # tool_name
    ELSE tool_name \notin DOMAIN self[a].tools

\* every provider call of the run so far returned a message with requests
\* that all satisfy Want
ProviderAlwaysRequests(a, Want(_)) ==
    \A n \in CompletionEvents(a) :
        LET e == obs[a].events[n]
        IN  /\ e.ok
            /\ ~AbsentNullOrEmpty(e.message)
            /\ \A i \in 1..Len(e.message.tool_calls.list) :
                  Want(e.message.tool_calls.list[i])

\* C6 (as stated): if the provider always requests an unregistered tool,
\* run does not raise, every tool-result of the run is the tool-not-found
\* text for the requested name, and run ends after max_iterations
\* iterations with the exhaustion text.
C6_UnregisteredRunsToExhaustion ==
    LET unregistered(request) == Unregistered("A", request.function.name)
    IN  (obs["A"].fresh = "used" /\ ProviderAlwaysRequests("A", unregistered)) =>
          /\ obs["A"].ret.kind # "raised"
          /\ \A n \in ToolEvents("A") :
                ResultIs("A", obs["A"].events[n],
                         "Error: Tool '" \o obs["A"].events[n].name \o "' not found")
          /\ Idle("A") =>
                /\ obs["A"].ret = Outcome("exhausted", ExhaustionText(script))
                /\ Cardinality(CompletionEvents("A")) = self["A"].max_iterations

\* the name is that of a registered tool that needs no approval
RegisteredApprovalFree(a, tool_name) ==
    ~Unregistered(a, tool_name) /\ ~RequiresApproval(a, tool_name)

\* provider calls and handler executions alternate, a provider call first
Alternating(events) ==
    \A n \in 1..Len(events) :
        IF n % 2 = 1 THEN events[n].ev = "completion"
        ELSE events[n].ev = "tool" /\ events[n].called

\* run(a) made N provider calls and N handler executions in turn, and then
\* returned the exhaustion text; N is max_iterations
NCallsThenExhausted(a) ==
    /\ Alternating(obs[a].events)
    /\ Len(obs[a].events) <= 2 * self[a].max_iterations
    /\ Idle(a) =>
          /\ Len(obs[a].events) = 2 * self[a].max_iterations
          /\ obs[a].ret = Outcome("exhausted", ExhaustionText(script))

\* exactly one request in each message
OneRequestEach(a) ==
    \A n \in CompletionEvents(a) :
        obs[a].events[n].ok => Len(obs[a].events[n].message.tool_calls.list) = 1

\* C7 (as stated): with max_iterations = N and a provider that on every
\* call requests exactly one registered, approval-free tool, run makes N
\* provider calls and N handler executions, alternating, and then returns
\* the exhaustion text.
C7_Original ==
    LET wanted(request) == RegisteredApprovalFree("A", request.function.name)
    IN  (obs["A"].fresh = "used" /\ OneRequestEach("A")
           /\ ProviderAlwaysRequests("A", wanted))
          => NCallsThenExhausted("A")

\* the arguments of the request deserialize to exactly the parameters of
\* the tool's handler
ValidArguments(request) ==
    /\ json_loads(request.function.arguments).ok
    /\ DOMAIN json_loads(request.function.arguments).value
          = Signature(request.function.name)

\* C7 (amended): the same, for requests whose arguments are valid for the
\* tool.
C7_ValidToolRunsNTimes ==
    LET wanted(request) == /\ RegisteredApprovalFree("A", request.function.name)
                           /\ ValidArguments(request)
    IN  (obs["A"].fresh = "used" /\ OneRequestEach("A")
           /\ ProviderAlwaysRequests("A", wanted))
          => NCallsThenExhausted("A")

\* C7 witness: max_iterations = 3, three provider calls each followed by a
\* handler execution, then the exhaustion text
C7_Witness ==
    LET wanted(request) == /\ RegisteredApprovalFree("A", request.function.name)
                           /\ ValidArguments(request)
    IN  /\ self["A"].max_iterations = 3
        /\ ProviderAlwaysRequests("A", wanted)
        /\ Len(obs["A"].events) = 6
        /\ obs["A"].events[6].called
        /\ obs["A"].ret.kind = "exhausted"

\* C8: if the first provider call of a run returns a message without tool
\* invocation requests, that is the run's only provider call, no tool is
\* executed, and run returns the message's content, for max_iterations >= 1.
C8_AnswerOnFirstCall ==
    LET events == obs["A"].events
    IN  (Len(events) >= 1 /\ events[1].ok /\ AbsentNullOrEmpty(events[1].message)) =>
          /\ Len(events) = 1
          /\ Idle("A")
          /\ obs["A"].ret = Outcome("done", events[1].message.content)

\* C8 witness: tool_calls is null, max_iterations is 3, run has returned
C8_Witness ==
    /\ self["A"].max_iterations = 3
    /\ Len(obs["A"].events) = 1
    /\ obs["A"].events[1].ok
    /\ "tool_calls" \in DOMAIN obs["A"].events[1].message
    /\ obs["A"].events[1].message.tool_calls.none
    /\ obs["A"].ret.kind = "done"

\* the roles of a conversation, in order
Shape(c) == [i \in 1..Len(c) |-> c[i].role]

\* A has returned from a run(p) that followed a reset, B from its run(p)
\* as a freshly constructed agent
ResetRunAndFreshRun ==
    /\ Idle("A") /\ Idle("B")
    /\ obs["A"].began \in {"reset", "reset after runs"}
    /\ obs["A"].fresh = "used"
    /\ obs["B"].began = "new"
    /\ obs["A"].prompt = obs["B"].prompt

\* C9: with a deterministic provider, reset() then run(p) leaves a
\* conversation of the same length and roles as run(p) on a freshly
\* constructed agent, and returns the same.
C9_ResetThenRunLikeFresh ==
    ResetRunAndFreshRun =>
        /\ Shape(Conversation("A")) = Shape(Conversation("B"))
        /\ obs["A"].ret = obs["B"].ret

\* C9 witness: A was reset after earlier runs, and the run compared went
\* through a tool turn
C9_Witness ==
    /\ ResetRunAndFreshRun
    /\ obs["A"].began = "reset after runs"
    /\ obs["A"].ret.kind = "done"
    /\ \E p \in 1..Len(Conversation("A")) : Conversation("A")[p].role = "tool"

\* C11: when a provider call fails inside run, the failure goes to the
\* caller of run, and the run makes no further provider call and executes
\* no tool: the failed call is the last event of the run, and nothing was
\* appended for it.
C11_ProviderFailurePropagates ==
    \A n \in CompletionEvents("A") :
        ~obs["A"].events[n].ok =>
            /\ n = Len(obs["A"].events)
            /\ Idle("A")
            /\ obs["A"].ret = Outcome("raised", "ProviderError")
            /\ Conversation("A")[Len(Conversation("A"))].role \in {"user", "tool"}

\* C11 witness: the provider failed on the second call of a run, after a
\* tool turn
C11_Witness ==
    /\ Len(obs["A"].events) >= 3
    /\ obs["A"].events[1].ev = "completion" /\ obs["A"].events[1].ok
    /\ obs["A"].events[2].ev = "tool"
    /\ obs["A"].events[Len(obs["A"].events)].ev = "completion"
    /\ ~obs["A"].events[Len(obs["A"].events)].ok
    /\ obs["A"].ret.kind = "raised"

\* s is an initial part of t
IsPrefix(s, t) == Len(s) <= Len(t) /\ SubSeq(t, 1, Len(s)) = s

\* C12: the conversation is append-only during run: every step that is not
\* a reset leaves the earlier message sequence as a prefix of the later
\* one, whether the run ends in Done, Exhausted or a provider failure.
C12_AppendOnly ==
    [][reset("A") \/ IsPrefix(Conversation("A"), Conversation("A")')]_vars

\* C12 witness: a run that began on a conversation of earlier runs has
\* ended in a provider failure, with the messages of a tool turn before it
C12_Witness ==
    /\ obs["A"].began = "used"
    /\ obs["A"].ret = Outcome("raised", "ProviderError")
    /\ \E p \in 1..Len(Conversation("A")) : Conversation("A")[p].role = "tool"
    /\ Len(Conversation("A")) >= 5

\* the system instruction the agents were constructed with
ConstructionInstruction == "SYSTEM_PROMPT"

\* the tool schemas agent attributes ag expose to the provider:
\* _get_tool_definitions() in 02-agent.py, self.tool_definitions in
\* 03-agent-pydantic.py
ExposedSchemas(ag) ==
    IF script = "02-agent.py" THEN _get_tool_definitions(ag) ELSE ag.tool_definitions

\* C13: reset leaves the conversation equal to exactly one message, the
\* system message with the construction-time system instruction, leaves
\* the model, the registered tools, the exposed tool schemas and
\* max_iterations unchanged, and a second reset changes nothing more.
C13_ResetFrame ==
    [][reset("A") =>
         LET before == self["A"]
             after == self["A"]'
         IN  /\ after.messages = << [role |-> "system", content |-> ConstructionInstruction] >>
             /\ after.model = before.model
             /\ after.tools = before.tools
             /\ ExposedSchemas(after) = ExposedSchemas(before)
             /\ after.max_iterations = before.max_iterations
             /\ after.system_instruction = before.system_instruction
             /\ ResetMessages(after) = after.messages
             /\ frame' = frame]_vars

\* C13 witness: the agent was reset after runs, and again
C13_Witness ==
    /\ obs["A"].fresh = "reset after runs"
    /\ obs["A"].ret.kind \in {"done", "exhausted", "raised"}
    /\ Len(Conversation("A")) = 1
    /\ Idle("A")

\* the sequences of at most n elements of S
SeqUpTo(S, n) == UNION {[1..k -> S] : k \in 0..n}

\* the tools lists an agent of either file may be constructed with
ToolLists(file) ==
    IF file = "02-agent.py"
    THEN SeqUpTo({tools_02[i] : i \in 1..Len(tools_02)}, Len(tools_02))
    ELSE SeqUpTo({weather_tool}, 2)

\* the schemas an agent constructed with these tools exposes
SchemasOf(file, tools) ==
    IF file = "02-agent.py"
    THEN _get_tool_definitions(__init__("gpt-5", "", tools, 1))
    ELSE pydantic__init__("gpt-5", "", tools, 1).tool_definitions

\* a schema sent to the provider holds the name, description and input
\* schema of the tool and nothing else of it
OnlyNameDescriptionSchema(schema, tool) ==
    /\ DOMAIN schema = {"type", "function"}
    /\ schema.type = "function"
    /\ DOMAIN schema.function = {"name", "description", "parameters"}
    /\ schema.function.name = tool.name
    /\ schema.function.description = tool.description
    /\ schema.function.parameters =
          IF "parameters" \in DOMAIN tool THEN tool.parameters
          ELSE model_json_schema(tool.parameters_model)

\* C14: every tool schema passed to the provider holds, per registered
\* tool, only its name, description and input schema, never its handler or
\* its requires_approval flag: at every provider call of a run, and, looked
\* at when the agent is constructed, for every tools list it may be given.
C14_OnlySchemaExposed ==
    /\ frame["A"].pc = "completion" =>
          LET sent == ExposedSchemas(self["A"])
              tools == IF script = "02-agent.py" THEN self["A"].tools
                       ELSE << weather_tool >>
          IN  /\ Len(sent) = Len(tools)
              /\ \A i \in 1..Len(sent) : OnlyNameDescriptionSchema(sent[i], tools[i])
    /\ obs["A"].fresh = "new" =>
          \A tools \in ToolLists(script) :
              /\ Len(SchemasOf(script, tools)) = Len(tools)
              /\ \A i \in 1..Len(tools) :
                    OnlyNameDescriptionSchema(SchemasOf(script, tools)[i], tools[i])

\* C14 witness: the second provider call of a run of the agent that has a
\* requires_approval tool is about to be made
C14_Witness ==
    /\ script = "02-agent.py"
    /\ frame["A"].pc = "completion"
    /\ frame["A"].i = 1
    /\ \E i \in 1..Len(self["A"].tools) : self["A"].tools[i].requires_approval

\* C15: two agents own independent conversations: in any interleaving of
\* run and reset calls on A and B, a step of a run or a reset on one leaves
\* the other's message sequence unchanged.
C15_IndependentConversations ==
    [][\A a \in Agents : \A b \in Agents \ {a} :
          StepOf(a) => Conversation(b)' = Conversation(b)]_vars

\* C15 witness: A was reset after its runs while a run of B is in its
\* tool loop, B's conversation holding the messages of that run
C15_Witness ==
    /\ obs["A"].fresh = "reset after runs"
    /\ Len(Conversation("A")) = 1
    /\ frame["B"].pc = "tools"
    /\ Len(Conversation("B")) >= 3

\* a call of run is in progress / has reached one of the terminal states
Running(a) == obs[a].ret.kind = "running"
Terminal(a) ==
    /\ Idle(a)
    /\ \/ obs[a].ret.kind \in {"done", "exhausted"}
       \/ obs[a].ret = Outcome("raised", "ProviderError")

\* C16 (as stated): when every provider call, handler and approval
\* decision returns, every call of run eventually reaches a terminal state,
\* Done, Exhausted or a provider failure, and no other, after at most
\* max_iterations provider calls.
C16_RunTerminates ==
    /\ [](Cardinality(CompletionEvents("A")) <= self["A"].max_iterations)
    /\ []((Idle("A") /\ obs["A"].ret.kind # "none") => Terminal("A"))
    /\ (Running("A") ~> Terminal("A"))

\* the provider call whose message tool event n belongs to
TurnOf(a, n) ==
    CHOOSE t \in CompletionEvents(a) :
        t < n /\ \A u \in CompletionEvents(a) : u < n => u <= t

\* the requests of that message, in the order received
RequestsOf(a, n) == obs[a].events[TurnOf(a, n)].message.tool_calls.list

\* C17: within one assistant turn with several requests, run attempts every
\* request in the order received: the i-th pass of the tool loop is for the
\* i-th request, and a pass that ends with a result (not found, handler
\* failure, approval denied, or a value) is followed by the pass for the
\* next request of the turn, which is answered right after it.
C17_EveryRequestAttempted ==
    \A n \in ToolEvents("A") :
        LET e == obs["A"].events[n]
            calls == RequestsOf("A", n)
            i == n - TurnOf("A", n)
        IN  /\ i \in 1..Len(calls)
            /\ e.id = calls[i].id /\ e.name = calls[i].function.name
            /\ (e.exc = "" /\ i < Len(calls)) =>
                  IF n = Len(obs["A"].events)
                  THEN frame["A"].pc = "tools" /\ frame["A"].tc = i + 1
                  ELSE LET next == obs["A"].events[n + 1]
                       IN  /\ next.ev = "tool"
                           /\ next.id = calls[i + 1].id
                           /\ next.exc = "" =>
                                 /\ next.at = e.at + 1
                                 /\ Conversation("A")[next.at].role = "tool"
                                 /\ Conversation("A")[next.at].tool_call_id = calls[i + 1].id

\* C17 witness: the first request of a turn was not carried out (its tool
\* not found, its approval denied or its arguments refused) and the second
\* request of the turn was then executed and answered
C17_Witness ==
    /\ Len(obs["A"].events) >= 3
    /\ obs["A"].events[2].ev = "tool"
    /\ obs["A"].events[2].exc = "" /\ ~obs["A"].events[2].called
    /\ obs["A"].events[3].ev = "tool"
    /\ obs["A"].events[3].called
    /\ Conversation("A")[obs["A"].events[3].at].role = "tool"

\* C18: whenever run has returned in the Done state, after any number of
\* tool turns, the last message of the conversation is an assistant message
\* without tool invocation requests whose content is the value returned,
\* and it was appended once: the message before it is the prompt or a
\* tool-result of the run.
C18_DoneMessageLast ==
    (Idle("A") /\ obs["A"].ret.kind = "done" /\ obs["A"].fresh = "used") =>
        LET c == Conversation("A")
            last == c[Len(c)]
        IN  /\ Len(c) >= 3
            /\ DOMAIN last = {"role", "content"}
            /\ last.role = "assistant"
            /\ last.content = obs["A"].ret.value
            /\ c[Len(c) - 1].role \in {"user", "tool"}
            /\ obs["A"].events[Len(obs["A"].events)].ev = "completion"
            /\ last.content = obs["A"].events[Len(obs["A"].events)].message.content

\* C18 witness: run returned Done on its second provider call, after a tool
\* turn
C18_Witness ==
    /\ Idle("A") /\ obs["A"].ret.kind = "done" /\ obs["A"].fresh = "used"
    /\ Len(obs["A"].events) >= 3
    /\ obs["A"].events[2].ev = "tool"
    /\ Conversation("A")[Len(Conversation("A")) - 1].role = "tool"

\* the arguments 03-agent-pydantic.py hands to Tool.execute for tool event
\* n: the deserialized arguments of its request, {} if they are no JSON
ArgumentsOf(a, n) ==
    LET request == RequestsOf(a, n)[n - TurnOf(a, n)]
        parsed == json_loads(request.function.arguments)
    IN  IF parsed.ok THEN parsed.value ELSE << >>

\* the arguments pass WeatherParams, whose one field, location, is required
PassesWeatherParams(arguments) == "location" \in DOMAIN arguments

\* C19: in 03-agent-pydantic.py a tool's handler is invoked only with
\* arguments that passed the validation of the tool's parameter schema;
\* when they fail it the handler is not invoked and the tool-result is an
\* error text.
C19_HandlerOnlyWithValidArguments ==
    script = "03-agent-pydantic.py" =>
        \A n \in ToolEvents("A") :
            LET e == obs["A"].events[n]
            IN  e.name = "get_weather" =>
                  /\ e.called => PassesWeatherParams(ArgumentsOf("A", n))
                  /\ ~PassesWeatherParams(ArgumentsOf("A", n)) =>
                        /\ ~e.called
                        /\ ResultIs("A", e,
                              "Error executing get_weather: 1 validation error for WeatherParams")

\* C19 witness: in one turn, a request with arguments that fail validation
\* got the error text and a request with valid arguments ran the handler
C19_Witness ==
    /\ script = "03-agent-pydantic.py"
    /\ \E n, m \in ToolEvents("A") :
          /\ obs["A"].events[n].name = "get_weather"
          /\ obs["A"].events[m].name = "get_weather"
          /\ ~PassesWeatherParams(ArgumentsOf("A", n)) /\ ~obs["A"].events[n].called
          /\ PassesWeatherParams(ArgumentsOf("A", m)) /\ obs["A"].events[m].called

\* C20 (as stated): in FAQAgent.chat, whenever the provider is about to be
\* called, every tool invocation request of every assistant turn of the
\* history has its tool-result message, with the matching tool_call_id,
\* right after the turn and in the requests' order; a request naming a
\* tool other than search_faqs included, and chat does not raise for it.
C20_ChatAnswersEveryRequest ==
    /\ frame["A"].pc = "completion" =>
          \A p \in 1..Len(frame["A"].messages) :
              IsToolTurn(frame["A"].messages[p]) => AnsweredInOrder(frame["A"].messages, p)
    /\ \A n \in ToolEvents("A") :
          obs["A"].events[n].name # "search_faqs" => obs["A"].events[n].exc = ""

\* C21: FAQAgent.chat keeps no conversation between calls: whatever chat
\* calls came before, the history sent on the first provider call of
\* chat(m) is exactly the system message and the user message m; chat makes
\* at most 5 provider calls, and what it returns is the content of the
\* model's last message or the fixed maximum-iterations text.
C21_ChatStartsOver ==
    /\ (frame["A"].pc = "completion" /\ frame["A"].i = 0) =>
          frame["A"].messages = << [role |-> "system", content |-> "faq_agent.md"],
                                   [role |-> "user", content |-> obs["A"].prompt] >>
    /\ Cardinality(CompletionEvents("A")) <= 5
    /\ obs["A"].ret.kind = "done" =>
          /\ obs["A"].events[Len(obs["A"].events)].ev = "completion"
          /\ obs["A"].ret.value = obs["A"].events[Len(obs["A"].events)].message.content
    /\ obs["A"].ret.kind = "exhausted" =>
          /\ obs["A"].ret.value = "Maximum iterations reached."
          /\ Cardinality(CompletionEvents("A")) = 5

\* C21 witness: a chat that followed an earlier chat with another message
\* has made its five provider calls and returned the maximum-iterations
\* text
C21_Witness ==
    /\ obs["A"].began = "used"
    /\ obs["A"].prompt = "refunds?"
    /\ obs["A"].ret.kind = "exhausted"
    /\ Cardinality(CompletionEvents("A")) = 5


\* the provider call that ended the run of agent a failed
ProviderFailed(a) ==
    /\ obs[a].events # << >>
    /\ obs[a].events[Len(obs[a].events)].ev = "completion"
    /\ ~obs[a].events[Len(obs[a].events)].ok

\* the conversation of agent a ends with the user message of its run and
\* then, in order, one message for every provider call and tool request
\* that completed in the run
EndsWithRunSoFar(a) ==
    LET c == Conversation(a)
        n == Len(obs[a].events)
        first == Len(c) - n + 1
    IN  /\ first >= 2
        /\ c[first] = [role |-> "user", content |-> obs[a].prompt]
        /\ \A j \in 1..(n - 1) :
             LET e == obs[a].events[j]
                 m == c[first + j]
             IN  IF e.ev = "completion"
                 THEN /\ e.ok
                      /\ m = model_dump(e.message)
                      /\ IsToolTurn(m)
                 ELSE /\ e.exc = ""
                      /\ e.at = first + j
                      /\ m.role = "tool"
                      /\ m.tool_call_id = e.id

\* C22: when the provider call of the i-th iteration of run(p) fails,
\* nothing is rolled back: the failing call leaves the conversation as it
\* was, which is the conversation before the run followed by the user
\* message p and every assistant and tool-result message of the i-1
\* completed tool turns; and a later run appends its user message to that
\* history.
C22_NothingRolledBack ==
    /\ [](ProviderFailed("A") => Idle("A") /\ EndsWithRunSoFar("A"))
    /\ [][ProviderFailed("A")' /\ ~Idle("A") => Conversation("A")' = Conversation("A")]_vars
    /\ [][\A p \in Prompts :
            run("A", p) => /\ IsPrefix(Conversation("A"), Conversation("A")')
                           /\ Conversation("A")' =
                                 Append(Conversation("A"), [role |-> "user", content |-> p])]_vars

\* C22 witness: a run that began on the conversation of an earlier run has
\* completed a tool turn and then lost its second provider call
C22_Witness ==
    /\ ProviderFailed("A")
    /\ obs["A"].began = "used"
    /\ Len(obs["A"].events) = 3
    /\ obs["A"].events[2].ev = "tool"
    /\ Len(Conversation("A")) = 5
    /\ EndsWithRunSoFar("A")


\* C23: for an Agent built with max_iterations <= 0, run(p) appends the
\* user message p, makes no provider call, executes no tool and returns the
\* exhaustion message, whatever the provider would have answered.
C23_NoIterationNoCall ==
    /\ [](self["A"].max_iterations <= 0 =>
            /\ Idle("A")
            /\ obs["A"].events = << >>
            /\ obs["A"].fresh = "used" =>
                  /\ obs["A"].ret = Outcome("exhausted", ExhaustionText(script))
                  /\ Conversation("A")[Len(Conversation("A"))] =
                        [role |-> "user", content |-> obs["A"].prompt])
    /\ [][self["A"].max_iterations <= 0 =>
            \A p \in Prompts :
               run("A", p) => Conversation("A")' =
                                 Append(Conversation("A"), [role |-> "user", content |-> p])]_vars

\* C23 witness: an agent built with a max_iterations below zero has
\* returned from its second run
C23_Witness ==
    /\ self["A"].max_iterations < 0
    /\ obs["A"].fresh = "used"
    /\ obs["A"].began = "used"
    /\ obs["A"].ret.kind = "exhausted"
    /\ Len(Conversation("A")) = 3


\* the places of tool_definitions that hold a schema of the given name
SchemasNamed(ag, name) ==
    {k \in 1..Len(ag.tool_definitions) : ag.tool_definitions[k].function.name = name}

\* C24: in the 03-agent-pydantic.py Agent, after any sequence of
\* register_tool calls (two tools of the same name included),
\* tool_definitions holds exactly one schema per key of the tools mapping,
\* each derived from the Tool currently stored under that name.
C24_SchemasAgreeWithRegistry ==
    LET ag == self["A"]
    IN  /\ Len(ag.tool_definitions) = Cardinality(DOMAIN ag.tools)
        /\ \A name \in DOMAIN ag.tools :
             /\ Cardinality(SchemasNamed(ag, name)) = 1
             /\ \A k \in SchemasNamed(ag, name) :
                  ag.tool_definitions[k] = to_litellm_tool(ag.tools[name])


\* the arguments string of the request that tool event n of agent a is for
RawArgumentsOf(a, n) == RequestsOf(a, n)[n - TurnOf(a, n)].function.arguments

\* C25: in the 03-agent-pydantic.py Agent, a request whose arguments are
\* not valid JSON does not make run raise: the arguments become the empty
\* mapping, the tool is looked up and executed through validation with
\* them (get_weather, whose location is required, is refused by validation
\* and its handler not called; an unregistered name gets the not-found
\* text), and the tool-result message with the request's id is appended.
C25_MalformedArgumentsBecomeEmpty ==
    script = "03-agent-pydantic.py" =>
        \A n \in ToolEvents("A") :
            LET e == obs["A"].events[n]
            IN  ~json_loads(RawArgumentsOf("A", n)).ok =>
                  /\ e.exc = ""
                  /\ obs["A"].ret # Outcome("raised", "JSONDecodeError")
                  /\ ~e.called
                  /\ e.id = RequestsOf("A", n)[n - TurnOf("A", n)].id
                  /\ IF e.name \in DOMAIN self["A"].tools
                     THEN ResultIs("A", e,
                            "Error executing " \o e.name \o
                            ": 1 validation error for WeatherParams")
                     ELSE ResultIs("A", e, "Error: Tool '" \o e.name \o "' not found")

\* C25 witness: get_weather was requested with arguments that are not
\* JSON, got its tool-result message, and the run went on to its answer
C25_Witness ==
    /\ script = "03-agent-pydantic.py"
    /\ obs["A"].ret.kind = "done"
    /\ \E n \in ToolEvents("A") :
          /\ obs["A"].events[n].name = "get_weather"
          /\ RawArgumentsOf("A", n) = ArgMalformed
          /\ obs["A"].events[n].at > 0


\* the ids of the chunks stored in the collection of database a, in the
\* order stored
StoredIds(a) == [i \in 1..Len(self[a].collection) |-> self[a].collection[i].id]

\* C26: in FAQDatabase, over any sequence of load_document and
\* load_from_directory calls on one collection, the ids of the stored
\* chunks are pairwise distinct: a call that stores k chunks when n are
\* stored gives them chunk_{n}..chunk_{n+k-1}, the count grows by k, and no
\* id is used twice.
C26_ChunkIdsDistinct ==
    LET ids == StoredIds("A")
    IN  /\ \A i, j \in 1..Len(ids) : i # j => ids[i] # ids[j]
        /\ obs["A"].call # "none" /\ ~obs["A"].raised =>
              /\ Len(ids) = obs["A"].before + obs["A"].chunks
              /\ \A idx \in 1..obs["A"].chunks :
                    ids[obs["A"].before + idx] =
                       "chunk_" \o ToString(obs["A"].before + idx - 1)

\* C26 witness: load_from_directory has stored two or more chunks in a
\* collection that already held chunks
C26_Witness ==
    /\ obs["A"].call = "load_from_directory"
    /\ ~obs["A"].raised
    /\ obs["A"].before >= 1
    /\ obs["A"].chunks >= 2
    /\ Len(StoredIds("A")) = obs["A"].before + obs["A"].chunks

====
